---- MODULE Spec2Model ----
(***************************************************************************)
(* A model of llm/main.py: the batch-size arithmetic                       *)
(* (calculate_batch_size_info, update_batch_size_info), the evaluator      *)
(* assembly (get_evaluators), the name-keyed builders and the sequential   *)
(* body of main.                                                           *)
(***************************************************************************)
EXTENDS Integers, Sequences, FiniteSets, TLC

VARIABLES
    pc,          \* position of the running function
    world_size,  \* dist.get_world_size()
    cfg0,        \* the configuration as it was passed in
    cfg,         \* the configuration mapping (key -> value), mutated in place
    ret,         \* outcome of the function called directly (value or exception)
    events,      \* external effects so far, in order: calls, prints, raises
    exc          \* the exception that left the running function, NoExc while none has

vars == <<pc, world_size, cfg0, cfg, ret, events, exc>>

----------------------------------------------------------------------------
(* Bounds of the model *)

MaxBatch == 8
MaxWorld == 3
MaxTasks == 2
MaxMainTasks == 1
MaxComponents == 1

----------------------------------------------------------------------------
(* Python values that a configuration scalar can hold *)

PyInt(k) == [t |-> "int", n |-> k, s |-> ""]
PyStr(x) == [t |-> "str", n |-> 0, s |-> x]
PyFloat(k) == [t |-> "float", n |-> k, s |-> ""]
PyNone == [t |-> "NoneType", n |-> 0, s |-> ""]

isinstance_int(v) == v.t = "int"

(* Exceptions: the type and the parts of the formatted message *)
NoExc == [type |-> "", msg |-> <<>>]
ValueError(m) == [type |-> "ValueError", msg |-> m]
ZeroDivisionError == [type |-> "ZeroDivisionError", msg |-> <<"integer division or modulo by zero">>]
KeyError(k) == [type |-> "KeyError", msg |-> <<k>>]
AssertionError == [type |-> "AssertionError", msg |-> <<>>]
ImportError == [type |-> "ImportError", msg |-> <<"wandb">>]
EngineError == [type |-> "EngineError", msg |-> <<>>]

(* The outcome of a call: a returned value or a raised exception, with the
   external effects (prints, constructor calls) it had before *)
Return(v, out) == [called |-> TRUE, exc |-> NoExc, value |-> v, effects |-> out]
Raise(e, out) == [called |-> TRUE, exc |-> e, value |-> <<>>, effects |-> out]
NotCalled == [called |-> FALSE, exc |-> NoExc, value |-> <<>>, effects |-> <<>>]

Returned(r) == r.called /\ r.exc = NoExc
Raised(r) == r.exc # NoExc

----------------------------------------------------------------------------
(* calculate_batch_size_info *)

DivisibilityMsg(global_batch_size) ==
    <<"Global batch size", ToString(global_batch_size), "is not divisible by",
      ToString(world_size), "adjust global_batch_size to be divisible by world size">>

ParseMsg(device_microbatch_size) ==
    <<"Not sure how to parse device_microbatch_size", device_microbatch_size.t>>

ClampWarning(device_microbatch_size, device_batch_size) ==
    <<"print", "WARNING: device_microbatch_size > device_batch_size, will be reduced",
      ToString(device_microbatch_size), ToString(device_batch_size)>>

(* device_batch_size // device_microbatch_size on two ints *)
FloorDiv(a, b) ==
    IF b = 0 THEN Raise(ZeroDivisionError, <<>>)
    ELSE Return(a \div b, <<>>)

(* the branch taken for an int device_microbatch_size, lines 98-104 *)
IntBranch(device_batch_size, device_microbatch_size) ==
    LET clamp == device_microbatch_size.n > device_batch_size
        out == IF clamp
               THEN <<ClampWarning(device_microbatch_size.n, device_batch_size)>>
               ELSE <<>>
        mbs == IF clamp THEN device_batch_size ELSE device_microbatch_size.n
        q == FloorDiv(device_batch_size, mbs)
    IN  IF Raised(q) THEN Raise(q.exc, out)
        ELSE Return(<<device_batch_size, PyInt(mbs), PyInt(q.value)>>, out)

(* line 89; NoDivisibilityCheck is the function with that test left out *)
NoDivisibilityCheck(global_batch_size) == FALSE
NotDivisible(global_batch_size) == global_batch_size % world_size # 0

(* line 95; NeverAuto is a comparison that never recognises the sentinel *)
NeverAuto(device_microbatch_size) == FALSE
IsAuto(device_microbatch_size) == device_microbatch_size = PyStr("auto")

calculate_batch_size_info(global_batch_size, device_microbatch_size) ==
    IF NotDivisible(global_batch_size)
    THEN Raise(ValueError(DivisibilityMsg(global_batch_size)), <<>>)
    ELSE LET device_batch_size == global_batch_size \div world_size IN
         IF IsAuto(device_microbatch_size)
         THEN Return(<<device_batch_size, device_microbatch_size, PyStr("auto")>>, <<>>)
         ELSE IF isinstance_int(device_microbatch_size)
         THEN IntBranch(device_batch_size, device_microbatch_size)
         ELSE Raise(ValueError(ParseMsg(device_microbatch_size)), <<>>)

----------------------------------------------------------------------------
(* update_batch_size_info *)

SetAttr(c, k, v) == (k :> v) @@ c

(* line 122; EvalFromAuto mirrors 'auto' instead of falling back to 1 *)
EvalFromAuto == PyStr("auto")
EvalBatchSizeForAuto == PyInt(1)

update_batch_size_info(c) ==
    LET r == calculate_batch_size_info(c["global_train_batch_size"],
                                       c["device_train_microbatch_size"])
    IN  IF Raised(r) THEN [exc |-> r.exc, cfg |-> c, effects |-> r.effects]
        ELSE LET c1 == SetAttr(c, "n_gpus", world_size)
                 c2 == SetAttr(c1, "device_train_batch_size", r.value[1])
                 c3 == SetAttr(c2, "device_train_microbatch_size", r.value[2])
                 c4 == SetAttr(c3, "device_train_grad_accum", r.value[3])
                 c5 == IF "device_eval_batch_size" \notin DOMAIN c4
                       THEN IF c4["device_train_microbatch_size"] = PyStr("auto")
                            THEN SetAttr(c4, "device_eval_batch_size", EvalBatchSizeForAuto)
                            ELSE SetAttr(c4, "device_eval_batch_size",
                                         c4["device_train_microbatch_size"])
                       ELSE c4
             IN  [exc |-> NoExc, cfg |-> c5, effects |-> r.effects]

----------------------------------------------------------------------------
(* The batch-size functions called on every input within the bounds *)

EmptyMap == [k \in {} |-> k]

GlobalBatchSizes == (0 - MaxBatch) .. MaxBatch
WorldSizes == 1 .. MaxWorld
MicrobatchSizes ==
    {PyInt(k) : k \in (0 - 2) .. (MaxBatch + 1)}
    \cup {PyStr("auto"), PyStr("8"), PyFloat(2), PyNone}
EvalBatchSizes == {PyInt(1), PyInt(6)}

BatchCfgs ==
    LET base == {[global_train_batch_size |-> g, device_train_microbatch_size |-> m] :
                    g \in GlobalBatchSizes, m \in MicrobatchSizes}
    IN  base \cup {SetAttr(c, "device_eval_batch_size", e) : c \in base, e \in EvalBatchSizes}

InitBatch ==
    /\ pc = "call"
    /\ world_size \in WorldSizes
    /\ cfg0 \in BatchCfgs
    /\ cfg = cfg0
    /\ ret = NotCalled
    /\ events = <<>>
    /\ exc = NoExc

(* calculate_batch_size_info(cfg.global_train_batch_size, cfg.device_train_microbatch_size) *)
CalculateBatchSizeInfo ==
    /\ pc = "call"
    /\ ret' = calculate_batch_size_info(cfg["global_train_batch_size"],
                                        cfg["device_train_microbatch_size"])
    /\ events' = events \o ret'.effects
    /\ exc' = ret'.exc
    /\ pc' = "returned"
    /\ UNCHANGED <<world_size, cfg0, cfg>>

(* cfg = update_batch_size_info(cfg) *)
UpdateBatchSizeInfo ==
    /\ pc = "call"
    /\ LET u == update_batch_size_info(cfg) IN
        /\ cfg' = u.cfg
        /\ exc' = u.exc
        /\ events' = events \o u.effects
        /\ pc' = IF u.exc = NoExc THEN "updated" ELSE "raised"
    /\ UNCHANGED <<world_size, cfg0, ret>>

NextBatch == CalculateBatchSizeInfo \/ UpdateBatchSizeInfo

SpecBatch == InitBatch /\ [][NextBatch]_vars

----------------------------------------------------------------------------
(* get_evaluators *)

(* truthiness of icl_task.get(key, None): None, '' and an empty list are
   falsy; PresentOnly is the weaker test "is not None" *)
PresentOnly(icl_task, key) == key \in DOMAIN icl_task
Truthy(icl_task, key) ==
    /\ key \in DOMAIN icl_task
    /\ IF key = "metric_names" THEN icl_task[key] # <<>> ELSE icl_task[key] # ""

(* the assert of line 30 *)
AssertTask(icl_task) ==
    Truthy(icl_task, "dataset_uri") /\ Truthy(icl_task, "name")
        /\ Truthy(icl_task, "metric_names")

MinEvalBatch == 4
Max(a, b) == IF a > b THEN a ELSE b

(* get_lm_task_dataloader(dataset_uri, tokenizer, batch_size=max(4, batch_size), ...) *)
TaskDataloader(icl_task, tokenizer, batch_size, seqlen) ==
    [dataset_uri |-> icl_task["dataset_uri"], tokenizer |-> tokenizer,
     batch_size |-> Max(MinEvalBatch, batch_size), max_seq_len |-> seqlen]

(* Evaluator(label=name, dataloader=dl, metric_names=list(metric_names)) *)
Evaluator(icl_task, dl) ==
    [label |-> icl_task["name"], dataloader |-> dl,
     metric_names |-> icl_task["metric_names"]]

RECURSIVE EvalLoop(_, _, _, _, _, _, _)
EvalLoop(tasks, i, tokenizer, batch_size, seqlen, evals, effects) ==
    IF i > Len(tasks) THEN Return(evals, effects)
    ELSE IF ~AssertTask(tasks[i]) THEN Raise(AssertionError, effects)
    ELSE LET dl == TaskDataloader(tasks[i], tokenizer, batch_size, seqlen)
         IN  EvalLoop(tasks, i + 1, tokenizer, batch_size, seqlen,
                      Append(evals, Evaluator(tasks[i], dl)),
                      effects \o << <<"get_lm_task_dataloader", tasks[i]["dataset_uri"]>>,
                                    <<"Evaluator", tasks[i]["name"]>> >>)

get_evaluators(tasks, tokenizer, batch_size, seqlen) ==
    EvalLoop(tasks, 1, tokenizer, batch_size, seqlen, <<>>, <<>>)

(* get_evaluators called on every list of task specs within the bounds *)

Optional(key, values) == {EmptyMap} \cup {key :> v : v \in values}

TaskSpecs ==
    {u @@ n @@ m : u \in Optional("dataset_uri", {"", "s3://a"}),
                   n \in Optional("name", {"lambada", "piqa"}),
                   m \in Optional("metric_names",
                                  {<<>>, <<"acc", "ppl">>, <<"ppl", "acc">>})}

RECURSIVE SeqsUpTo(_, _)
SeqsUpTo(S, n) ==
    IF n = 0 THEN {<<>>}
    ELSE LET shorter == SeqsUpTo(S, n - 1)
         IN  shorter \cup {Append(q, x) : q \in shorter, x \in S}

SeqLens == {2048}

InitEval ==
    /\ pc = "call"
    /\ world_size = 1
    /\ cfg0 \in {[icl_tasks |-> tasks, device_eval_batch_size |-> b, max_seq_len |-> n] :
                    tasks \in SeqsUpTo(TaskSpecs, MaxTasks), b \in EvalBatchSizes,
                    n \in SeqLens}
    /\ cfg = cfg0
    /\ ret = NotCalled
    /\ events = <<>>
    /\ exc = NoExc

(* get_evaluators(cfg.icl_tasks, tokenizer, cfg.device_eval_batch_size, cfg.max_seq_len) *)
GetEvaluators ==
    /\ pc = "call"
    /\ ret' = get_evaluators(cfg["icl_tasks"], "tokenizer",
                             cfg["device_eval_batch_size"].n, cfg["max_seq_len"])
    /\ events' = events \o ret'.effects
    /\ exc' = ret'.exc
    /\ pc' = "returned"
    /\ UNCHANGED <<world_size, cfg0, cfg>>

NextEval == GetEvaluators

SpecEval == InitEval /\ [][NextEval]_vars

----------------------------------------------------------------------------
(* The name-keyed builders.  A builder returns what it constructed; its
   effects are the constructor calls it made. *)

NotSure(category, name) == ValueError(<<"Not sure how to build", category, name>>)

build_logger(name) ==
    IF name = "wandb" THEN Return("WandBLogger", << <<"logger", "WandBLogger">> >>)
    ELSE Raise(NotSure("logger", name), <<>>)

build_callback(name) ==
    IF name = "lr_monitor" THEN Return("LRMonitor", << <<"callback", "LRMonitor">> >>)
    ELSE IF name = "memory_monitor"
    THEN Return("MemoryMonitor", << <<"callback", "MemoryMonitor">> >>)
    ELSE IF name = "speed_monitor"
    THEN Return("SpeedMonitor", << <<"callback", "SpeedMonitor">> >>)
    ELSE IF name = "optimizer_monitor"
    THEN Return("OptimizerMonitor", << <<"callback", "OptimizerMonitor">> >>)
    ELSE Raise(NotSure("callback", name), <<>>)

build_algorithm(name) ==
    IF name = "gradient_clipping"
    THEN Return("GradientClipping", << <<"algorithm", "GradientClipping">> >>)
    ELSE Raise(NotSure("algorithm", name), <<>>)

build_optimizer(name) ==
    IF name = "decoupled_adamw"
    THEN Return("DecoupledAdamW", << <<"optimizer", "DecoupledAdamW">> >>)
    ELSE Raise(NotSure("optimizer", name), <<>>)

build_scheduler(name) ==
    IF name = "constant_with_warmup"
    THEN Return("ConstantWithWarmupScheduler",
                << <<"scheduler", "ConstantWithWarmupScheduler">> >>)
    ELSE IF name = "cosine_with_warmup"
    THEN Return("CosineAnnealingWithWarmupScheduler",
                << <<"scheduler", "CosineAnnealingWithWarmupScheduler">> >>)
    ELSE Raise(NotSure("scheduler", name), <<>>)

(* The registries imported from src.model_registry and src.tokenizer are
   mappings subscripted by name; only their key sets matter here. *)
COMPOSER_MODEL_REGISTRY == {"mosaic_gpt"}
TOKENIZER_REGISTRY == {"hftokenizer"}

(* registry[name]: the subscript of a mapping raises KeyError(name) on a
   missing key *)
Subscript(registry, name) ==
    IF name \in registry THEN Return(name, <<>>) ELSE Raise(KeyError(name), <<>>)

(* build_composer_model: the bare except turns every exception of the lookup
   and of the model constructor into the same ValueError *)
build_composer_model(name, constructor_raises) ==
    LET found == Subscript(COMPOSER_MODEL_REGISTRY, name)
    IN  IF Raised(found)
        THEN Raise(ValueError(<<"Not sure how to build", "model", "with name=", name>>), <<>>)
        ELSE IF constructor_raises
        THEN Raise(ValueError(<<"Not sure how to build", "model", "with name=", name>>),
                   << <<"model", name>> >>)
        ELSE Return(name, << <<"model", name>> >>)

(* TOKENIZER_REGISTRY[cfg.tokenizer.type](args), line 177 *)
build_tokenizer(type) ==
    LET found == Subscript(TOKENIZER_REGISTRY, type)
    IN  IF Raised(found) THEN found
        ELSE Return(type, << <<"tokenizer", type>> >>)

(* build_dataloader: build_text_dataloader is called; anything it raises
   becomes a ValueError *)
build_dataloader(which, device_batch_size, loader_raises) ==
    IF loader_raises
    THEN Raise(ValueError(<<"Not sure how to build dataloader with config:", which>>),
               << <<"dataloader", which>> >>)
    ELSE Return(which, << <<"dataloader", which>> >>)

(* [build(name, kwargs) for name, kwargs in mapping.items()]: in declaration
   order, stopping at the first builder that raises *)
Build(category, name) ==
    CASE category = "logger" -> build_logger(name)
      [] category = "callback" -> build_callback(name)
      [] category = "algorithm" -> build_algorithm(name)

RECURSIVE BuildAll(_, _, _, _, _)
BuildAll(category, names, i, built, effects) ==
    IF i > Len(names) THEN Return(built, effects)
    ELSE LET r == Build(category, names[i])
         IN  IF Raised(r) THEN Raise(r.exc, effects \o r.effects)
             ELSE BuildAll(category, names, i + 1, Append(built, r.value),
                           effects \o r.effects)

(* log_config: the wandb import is attempted only when a wandb logger is configured *)
log_config(loggers, import_raises) ==
    IF (\E i \in 1 .. Len(loggers) : loggers[i] = "wandb") /\ import_raises
    THEN Raise(ImportError, << <<"log_config", "print">> >>)
    ELSE Return("None", << <<"log_config", "print">> >>)

----------------------------------------------------------------------------
(* main.  The configuration tree is an input that main reads one section at
   a time and never re-reads; each section is chosen when main reads it and
   kept in cfg from then on. *)

(* the order in which evaluator assembly follows every component resolution *)
MainOrderSpec ==
    <<"seed_all", "run_name", "update_batch_size_info", "build_composer_model",
      "tokenizer", "train_loader", "eval_loader", "build_optimizer",
      "build_scheduler", "loggers", "callbacks", "algorithms", "get_evaluators",
      "Trainer", "log_config", "fit", "done">>
(* the statements of main in program order *)
MainOrder ==
    <<"seed_all", "run_name", "update_batch_size_info", "build_composer_model",
      "tokenizer", "get_evaluators", "train_loader", "eval_loader",
      "build_optimizer", "build_scheduler", "loggers", "callbacks", "algorithms",
      "Trainer", "log_config", "fit", "done">>

Following(stage) ==
    MainOrder[(CHOOSE i \in DOMAIN MainOrder : MainOrder[i] = stage) + 1]

(* main has no try/except: once a statement raised, no later statement runs;
   KeepsGoing is a main that swallows the exception and carries on *)
KeepsGoing == TRUE
Running == exc = NoExc

(* the effect of one statement of main whose outcome is r *)
Statement(r) ==
    /\ events' = events \o r.effects
                   \o (IF Raised(r) THEN << <<"raise", r.exc.type>> >> ELSE <<>>)
    /\ exc' = r.exc
    /\ pc' = IF Raised(r) THEN pc ELSE Following(pc)

At(stage) == pc = stage /\ Running

RunNames == {"my-run"}
Environs == {EmptyMap, [COMPOSER_RUN_NAME |-> "env-run"]}
DefaultRunName == "llm"

MainBatchCfgs ==
    {c \in BatchCfgs :
        /\ c["global_train_batch_size"] = MaxBatch
        /\ c["device_train_microbatch_size"] \in {PyStr("auto"), PyInt(2), PyInt(MaxBatch + 1), PyInt(0), PyNone}
        /\ "device_eval_batch_size" \in DOMAIN c => c["device_eval_batch_size"] = PyInt(6)}

MainTaskSpecs ==
    {t \in TaskSpecs :
        /\ {"dataset_uri", "name"} \subseteq DOMAIN t
        /\ t["dataset_uri"] # ""
        /\ "metric_names" \in DOMAIN t => (t["name"] = "lambada" /\ Len(t["metric_names"]) = 2)}

ModelNames == COMPOSER_MODEL_REGISTRY \cup {"nonexistent"}
TokenizerNames == TOKENIZER_REGISTRY \cup {"nonexistent"}
OptimizerNames == {"decoupled_adamw", "nonexistent"}
SchedulerNames == {"constant_with_warmup", "cosine_with_warmup", "nonexistent"}
LoggerNames == {"wandb", "nonexistent"}
CallbackNames ==
    {"lr_monitor", "memory_monitor", "speed_monitor", "optimizer_monitor", "nonexistent"}
AlgorithmNames == {"gradient_clipping", "nonexistent"}

(* the keys of a mapping, in declaration order: no key twice *)
KeySeqs(S, n) ==
    {q \in SeqsUpTo(S, n) : \A i, j \in 1 .. Len(q) : i # j => q[i] # q[j]}

InitMain ==
    /\ pc = "seed_all"
    /\ world_size \in WorldSizes
    /\ cfg0 \in {[seed |-> 17]} \cup {[seed |-> 17, run_name |-> n] : n \in RunNames}
    /\ cfg = cfg0
    /\ ret = NotCalled
    /\ events = <<>>
    /\ exc = NoExc

(* reproducibility.seed_all(cfg.seed) *)
SeedAll ==
    /\ At("seed_all")
    /\ Statement(Return("None", << <<"seed_all", ToString(cfg["seed"])>> >>))
    /\ UNCHANGED <<world_size, cfg0, cfg, ret>>

(* cfg.run_name = cfg.get('run_name', os.environ.get('COMPOSER_RUN_NAME', 'llm')) *)
RunName ==
    /\ At("run_name")
    /\ \E environ \in Environs :
          cfg' = SetAttr(cfg, "run_name",
                         IF "run_name" \in DOMAIN cfg THEN cfg["run_name"]
                         ELSE IF "COMPOSER_RUN_NAME" \in DOMAIN environ
                         THEN environ["COMPOSER_RUN_NAME"]
                         ELSE DefaultRunName)
    /\ Statement(Return("None", <<>>))
    /\ UNCHANGED <<world_size, cfg0, ret>>

(* cfg = update_batch_size_info(cfg); fsdp_config is read and passed on *)
MainUpdateBatchSizeInfo ==
    /\ At("update_batch_size_info")
    /\ \E section \in MainBatchCfgs :
          LET u == update_batch_size_info(section @@ cfg) IN
              /\ cfg' = u.cfg
              /\ Statement([called |-> TRUE, exc |-> u.exc, value |-> <<>>,
                            effects |-> u.effects])
    /\ UNCHANGED <<world_size, cfg0, ret>>

(* model = build_composer_model(cfg.model); cfg.n_params is reported *)
BuildModel ==
    /\ At("build_composer_model")
    /\ \E name \in ModelNames, constructor_raises \in BOOLEAN :
          /\ cfg' = SetAttr(cfg, "model", name)
          /\ Statement(build_composer_model(name, constructor_raises))
    /\ UNCHANGED <<world_size, cfg0, ret>>

(* tokenizer = TOKENIZER_REGISTRY[cfg.tokenizer.type](args) *)
BuildTokenizer ==
    /\ At("tokenizer")
    /\ \E type \in TokenizerNames :
          /\ cfg' = SetAttr(cfg, "tokenizer", type)
          /\ Statement(build_tokenizer(type))
    /\ UNCHANGED <<world_size, cfg0, ret>>

(* evaluators = get_evaluators(cfg.get('icl_tasks', {}), tokenizer,
                               cfg.device_eval_batch_size, cfg.max_seq_len) *)
MainGetEvaluators ==
    /\ At("get_evaluators")
    /\ \E tasks \in SeqsUpTo(MainTaskSpecs, MaxMainTasks), seqlen \in SeqLens :
          /\ cfg' = SetAttr(SetAttr(cfg, "icl_tasks", tasks), "max_seq_len", seqlen)
          /\ Statement(get_evaluators(tasks, cfg["tokenizer"],
                                      cfg["device_eval_batch_size"].n, seqlen))
    /\ UNCHANGED <<world_size, cfg0, ret>>

(* train_loader = build_dataloader(cfg.train_loader, cfg.device_train_batch_size) *)
BuildTrainLoader ==
    /\ At("train_loader")
    /\ \E loader_raises \in BOOLEAN :
          Statement(build_dataloader("train_loader", cfg["device_train_batch_size"],
                                     loader_raises))
    /\ UNCHANGED <<world_size, cfg0, cfg, ret>>

(* eval_loader = build_dataloader(cfg.eval_loader, cfg.device_eval_batch_size) *)
BuildEvalLoader ==
    /\ At("eval_loader")
    /\ \E loader_raises \in BOOLEAN :
          Statement(build_dataloader("eval_loader", cfg["device_eval_batch_size"].n,
                                     loader_raises))
    /\ UNCHANGED <<world_size, cfg0, cfg, ret>>

(* optimizer = build_optimizer(cfg.optimizer, model) *)
BuildOptimizer ==
    /\ At("build_optimizer")
    /\ \E name \in OptimizerNames :
          /\ cfg' = SetAttr(cfg, "optimizer", name)
          /\ Statement(build_optimizer(name))
    /\ UNCHANGED <<world_size, cfg0, ret>>

(* scheduler = build_scheduler(cfg.scheduler) *)
BuildScheduler ==
    /\ At("build_scheduler")
    /\ \E name \in SchedulerNames :
          /\ cfg' = SetAttr(cfg, "scheduler", name)
          /\ Statement(build_scheduler(name))
    /\ UNCHANGED <<world_size, cfg0, ret>>

(* loggers = [build_logger(name, logger_cfg) for ... in cfg.get('loggers', {}).items()] *)
BuildLoggers ==
    /\ At("loggers")
    /\ \E names \in KeySeqs(LoggerNames, MaxComponents) :
          /\ cfg' = SetAttr(cfg, "loggers", names)
          /\ Statement(BuildAll("logger", names, 1, <<>>, <<>>))
    /\ UNCHANGED <<world_size, cfg0, ret>>

(* callbacks = [build_callback(name, callback_cfg) for ...] *)
BuildCallbacks ==
    /\ At("callbacks")
    /\ \E names \in KeySeqs(CallbackNames, MaxComponents) :
          /\ cfg' = SetAttr(cfg, "callbacks", names)
          /\ Statement(BuildAll("callback", names, 1, <<>>, <<>>))
    /\ UNCHANGED <<world_size, cfg0, ret>>

(* algos = [build_algorithm(name, algorithm_cfg) for ...] *)
BuildAlgorithms ==
    /\ At("algorithms")
    /\ \E names \in KeySeqs(AlgorithmNames, MaxComponents) :
          /\ cfg' = SetAttr(cfg, "algorithms", names)
          /\ Statement(BuildAll("algorithm", names, 1, <<>>, <<>>))
    /\ UNCHANGED <<world_size, cfg0, ret>>

(* trainer = Trainer(...) *)
BuildTrainer ==
    /\ At("Trainer")
    /\ \E trainer_raises \in BOOLEAN :
          Statement(IF trainer_raises
                    THEN Raise(EngineError, << <<"Trainer", cfg["run_name"]>> >>)
                    ELSE Return("trainer", << <<"Trainer", cfg["run_name"]>> >>))
    /\ UNCHANGED <<world_size, cfg0, cfg, ret>>

(* log_config(cfg) *)
LogConfig ==
    /\ At("log_config")
    /\ \E import_raises \in BOOLEAN :
          Statement(log_config(cfg["loggers"], import_raises))
    /\ UNCHANGED <<world_size, cfg0, cfg, ret>>

(* trainer.fit() *)
Fit ==
    /\ At("fit")
    /\ \E fit_raises \in BOOLEAN :
          Statement(IF fit_raises
                    THEN Raise(EngineError, << <<"fit", "trainer">> >>)
                    ELSE Return("None", << <<"fit", "trainer">> >>))
    /\ UNCHANGED <<world_size, cfg0, cfg, ret>>

NextMain ==
    \/ SeedAll
    \/ RunName
    \/ MainUpdateBatchSizeInfo
    \/ BuildModel
    \/ BuildTokenizer
    \/ MainGetEvaluators
    \/ BuildTrainLoader
    \/ BuildEvalLoader
    \/ BuildOptimizer
    \/ BuildScheduler
    \/ BuildLoggers
    \/ BuildCallbacks
    \/ BuildAlgorithms
    \/ BuildTrainer
    \/ LogConfig
    \/ Fit

SpecMain == InitMain /\ [][NextMain]_vars

----------------------------------------------------------------------------
(* Properties of calculate_batch_size_info and update_batch_size_info,
   read in the state right after the call (SpecBatch) *)

G0 == cfg0["global_train_batch_size"]
M0 == cfg0["device_train_microbatch_size"]
CalcDone == pc = "returned"
PositiveInt(v) == v.t = "int" /\ v.n > 0

(* C1: a plan is returned only when global_batch_size % world_size = 0, every
   returned plan has device_batch_size * world_size = global_batch_size, and a
   global batch size that is not divisible raises the divisibility ValueError
   whatever the microbatch argument is. *)
C1_Divisibility ==
    CalcDone =>
        /\ Returned(ret) => (G0 % world_size = 0 /\ ret.value[1] * world_size = G0)
        /\ G0 % world_size # 0 =>
              /\ ret.exc.type = "ValueError"
              /\ ret.exc.msg[3] = "is not divisible by"
              /\ ret.exc.msg[2] = ToString(G0)
              /\ ret.value = <<>>

C1_Witness ==
    /\ CalcDone
    /\ G0 % world_size # 0
    /\ M0 = PyInt(0)
    /\ ret.exc.type = "ValueError"

(* C2: a positive int microbatch size <= device_batch_size that does not
   divide device_batch_size raises a ValueError and returns no plan, so every
   returned plan with an int microbatch size has
   grad_accum * device_microbatch_size = device_batch_size. *)
C2_NonDividingFails ==
    CalcDone /\ G0 % world_size = 0 =>
        /\ (PositiveInt(M0) /\ M0.n <= G0 \div world_size
               /\ (G0 \div world_size) % M0.n # 0)
              => (ret.exc.type = "ValueError" /\ ret.value = <<>>)
        /\ (Returned(ret) /\ PositiveInt(M0))
              => ret.value[3].n * ret.value[2].n = ret.value[1]

(* C3: a microbatch size that is neither "auto" nor a positive int raises the
   "Not sure how to parse" ValueError; no plan, no other exception. *)
C3_UnparsableFails ==
    CalcDone /\ G0 % world_size = 0 /\ M0 # PyStr("auto") /\ ~PositiveInt(M0) =>
        /\ ret.exc = ValueError(<<"Not sure how to parse device_microbatch_size", M0.t>>)
        /\ ret.value = <<>>

(* C4: for a non-negative divisible global batch size and a positive int
   microbatch size above device_batch_size, the call returns the plan
   (device_batch_size, device_batch_size, 1) after printing a warning. *)
C4_ClampReturns ==
    CalcDone /\ G0 >= 0 /\ G0 % world_size = 0
             /\ PositiveInt(M0) /\ M0.n > G0 \div world_size =>
        /\ Returned(ret)
        /\ ret.value = <<G0 \div world_size, PyInt(G0 \div world_size), PyInt(1)>>
        /\ Len(ret.effects) = 1
        /\ ret.effects[1][1] = "print"

(* C5: with "auto" and a divisible global batch size the call returns
   (global_batch_size / world_size, "auto", "auto"), prints nothing and raises
   nothing (no comparison or division was applied to "auto"). *)
C5_AutoPropagates ==
    CalcDone /\ G0 % world_size = 0 /\ M0 = PyStr("auto") =>
        /\ Returned(ret)
        /\ ret.value[1] * world_size = G0
        /\ ret.value[2] = PyStr("auto")
        /\ ret.value[3] = PyStr("auto")
        /\ ret.effects = <<>>

C5_Witness ==
    /\ CalcDone
    /\ M0 = PyStr("auto")
    /\ world_size > 1
    /\ G0 > 0
    /\ Returned(ret)
    /\ ret.value[3] = PyStr("auto")

(* C9: after update_batch_size_info returned, a device_eval_batch_size that
   was set is unchanged; one that was unset is 1 when the resolved microbatch
   size is "auto", and otherwise is the resolved (clamped) microbatch size. *)
EvalWasSet == "device_eval_batch_size" \in DOMAIN cfg0
Min(a, b) == IF a < b THEN a ELSE b

C9_EvalBatchSize ==
    pc = "updated" =>
        /\ EvalWasSet => cfg["device_eval_batch_size"] = cfg0["device_eval_batch_size"]
        /\ (~EvalWasSet /\ cfg["device_train_microbatch_size"] = PyStr("auto"))
              => cfg["device_eval_batch_size"] = PyInt(1)
        /\ (~EvalWasSet /\ cfg["device_train_microbatch_size"].t = "int")
              => /\ cfg["device_eval_batch_size"] = cfg["device_train_microbatch_size"]
                 /\ cfg["device_eval_batch_size"].n
                       = Min(M0.n, G0 \div world_size)

C9_Witness ==
    /\ pc = "updated"
    /\ ~EvalWasSet
    /\ M0.t = "int"
    /\ M0.n > cfg["device_train_batch_size"]
    /\ cfg["device_eval_batch_size"] = PyInt(cfg["device_train_batch_size"])
    /\ cfg["device_train_batch_size"] > 1

(* C8: get_evaluators either returns one evaluator per task spec, in input
   order, each labelled with the spec's name and carrying its metric_names in
   declared order, or raises at the first spec without a dataset_uri, name or
   metric_names; then no dataloader was built for that spec (one was built
   for each spec before it) and no list is returned. *)
Tasks0 == cfg0["icl_tasks"]
Lacks(task) ==
    \E key \in {"dataset_uri", "name", "metric_names"} :
        \/ key \notin DOMAIN task
        \/ key = "metric_names" /\ task[key] = <<>>
        \/ key # "metric_names" /\ task[key] = ""
DataloaderCalls == SelectSeq(events, LAMBDA e : e[1] = "get_lm_task_dataloader")

C8_Evaluators ==
    pc = "returned" /\ "icl_tasks" \in DOMAIN cfg0 =>
        IF \A i \in 1 .. Len(Tasks0) : ~Lacks(Tasks0[i])
        THEN /\ ret.exc = NoExc
             /\ Len(ret.value) = Len(Tasks0)
             /\ \A i \in 1 .. Len(Tasks0) :
                   /\ ret.value[i].label = Tasks0[i]["name"]
                   /\ ret.value[i].metric_names = Tasks0[i]["metric_names"]
                   /\ ret.value[i].dataloader.dataset_uri = Tasks0[i]["dataset_uri"]
             /\ Len(DataloaderCalls) = Len(Tasks0)
        ELSE LET first == CHOOSE i \in 1 .. Len(Tasks0) :
                              Lacks(Tasks0[i]) /\ \A j \in 1 .. (i - 1) : ~Lacks(Tasks0[j])
             IN  /\ ret.exc.type = "AssertionError"
                 /\ ret.value = <<>>
                 /\ Len(DataloaderCalls) = first - 1
                 /\ \A j \in 1 .. (first - 1) :
                       DataloaderCalls[j][2] = Tasks0[j]["dataset_uri"]

C8_Witness ==
    /\ pc = "returned"
    /\ "icl_tasks" \in DOMAIN cfg0
    /\ Len(Tasks0) = 2
    /\ ~Lacks(Tasks0[1])
    /\ "metric_names" \notin DOMAIN Tasks0[2]
    /\ ret.exc.type = "AssertionError"
    /\ Len(DataloaderCalls) = 1

----------------------------------------------------------------------------
(* Properties of main (SpecMain), read off the trace of external effects *)

Count(kind) == Len(SelectSeq(events, LAMBDA e : e[1] = kind))
Before(i, kind) == \E j \in 1 .. (i - 1) : events[j][1] = kind
FirstUnknown(names, known) ==
    CHOOSE i \in 1 .. Len(names) :
        names[i] \notin known /\ \A j \in 1 .. (i - 1) : names[j] \in known
Mentions(e, word) == \E i \in 1 .. Len(e.msg) : e.msg[i] = word

(* a name-keyed resolution that raised on an unregistered name raised the
   "Not sure how to build" ValueError naming the category and the name *)
UnknownRaises(category, name) ==
    /\ exc.type = "ValueError"
    /\ Mentions(exc, category)
    /\ Mentions(exc, name)

SingleUnknown(stage, key, category, known) ==
    (pc = stage /\ exc # NoExc /\ key \in DOMAIN cfg /\ cfg[key] \notin known) =>
        /\ UnknownRaises(category, cfg[key])
        /\ Count(category) = 0

ListUnknown(stage, category, known) ==
    (pc = stage /\ exc # NoExc /\ stage \in DOMAIN cfg) =>
        LET k == FirstUnknown(cfg[stage], known)
        IN  /\ UnknownRaises(category, cfg[stage][k])
            /\ Count(category) = k - 1

(* C6: in every category (logger, callback, algorithm, optimizer, scheduler,
   model, tokenizer) resolving a name with no registered builder raises an
   error that names the category and the unknown name, and no constructor of
   the category was called for it. *)
C6_UnknownComponent ==
    /\ ListUnknown("loggers", "logger", {"wandb"})
    /\ ListUnknown("callbacks", "callback",
                   {"lr_monitor", "memory_monitor", "speed_monitor", "optimizer_monitor"})
    /\ ListUnknown("algorithms", "algorithm", {"gradient_clipping"})
    /\ SingleUnknown("build_optimizer", "optimizer", "optimizer", {"decoupled_adamw"})
    /\ SingleUnknown("build_scheduler", "scheduler", "scheduler",
                     {"constant_with_warmup", "cosine_with_warmup"})
    /\ SingleUnknown("build_composer_model", "model", "model", COMPOSER_MODEL_REGISTRY)
    /\ SingleUnknown("tokenizer", "tokenizer", "tokenizer", TOKENIZER_REGISTRY)

(* C7: trainer.fit is called at most once, and only after seeding, batch
   planning, every component resolution, the evaluator assembly and the
   Trainer construction all happened, once each, without a raise; once a
   statement raised nothing else happens, so fit is never called after a
   failure and no stage runs twice. *)
Once == {"seed_all", "model", "tokenizer", "optimizer", "scheduler", "Trainer"}

C7_FailFast ==
    /\ Count("fit") <= 1
    /\ \A kind \in Once : Count(kind) <= 1
    /\ Count("dataloader") <= 2
    /\ Count("raise") <= 1
    /\ \A i \in 1 .. Len(events) :
          /\ events[i][1] = "raise" =>
                (i = Len(events) /\ exc # NoExc /\ exc.type = events[i][2])
          /\ events[i][1] = "fit" =>
                /\ \A kind \in Once : Before(i, kind)
                /\ \E j \in 1 .. (i - 1) : events[j] = <<"dataloader", "train_loader">>
                /\ \E j \in 1 .. (i - 1) : events[j] = <<"dataloader", "eval_loader">>
                /\ {"device_train_batch_size", "device_train_grad_accum", "run_name",
                    "icl_tasks", "loggers", "callbacks", "algorithms"} \subseteq DOMAIN cfg
                /\ Count("Evaluator") = Len(cfg["icl_tasks"])
                /\ Count("logger") = Len(cfg["loggers"])
                /\ Count("callback") = Len(cfg["callbacks"])
                /\ Count("algorithm") = Len(cfg["algorithms"])
    /\ exc # NoExc => (Count("raise") = 1 /\ (Count("fit") = 1 => pc = "fit"))

C7_Witness ==
    /\ pc = "log_config"
    /\ exc = ImportError
    /\ Count("Trainer") = 1
    /\ Count("fit") = 0

(* C10 as stated: the effects of main come in the order seeding, batch
   planning, model, tokenizer, train and eval data sources, optimizer,
   scheduler, loggers, callbacks, algorithms, and only then the evaluator
   assembly, the Trainer construction and fit. *)
StatedRank(e) ==
    CASE e[1] = "seed_all" -> 1
      [] e[1] = "print" -> 2
      [] e[1] = "model" -> 3
      [] e[1] = "tokenizer" -> 4
      [] e = <<"dataloader", "train_loader">> -> 5
      [] e = <<"dataloader", "eval_loader">> -> 6
      [] e[1] = "optimizer" -> 7
      [] e[1] = "scheduler" -> 8
      [] e[1] = "logger" -> 9
      [] e[1] = "callback" -> 10
      [] e[1] = "algorithm" -> 11
      [] e[1] \in {"get_lm_task_dataloader", "Evaluator"} -> 12
      [] e[1] = "Trainer" -> 13
      [] e[1] = "log_config" -> 14
      [] e[1] = "fit" -> 15
      [] OTHER -> 16

C10_StatedOrder ==
    \A i \in 1 .. (Len(events) - 1) : StatedRank(events[i]) <= StatedRank(events[i + 1])

(* C10 amended: the order is seeding, batch planning, model, tokenizer, the
   evaluator assembly, then train and eval data sources, optimizer,
   scheduler, loggers, callbacks, algorithms, the Trainer construction and
   fit; nothing is built before the batch plan is in cfg and the model is
   the first component built. *)
CodeRank(e) ==
    CASE e[1] = "seed_all" -> 1
      [] e[1] = "print" -> 2
      [] e[1] = "model" -> 3
      [] e[1] = "tokenizer" -> 4
      [] e[1] \in {"get_lm_task_dataloader", "Evaluator"} -> 5
      [] e = <<"dataloader", "train_loader">> -> 6
      [] e = <<"dataloader", "eval_loader">> -> 7
      [] e[1] = "optimizer" -> 8
      [] e[1] = "scheduler" -> 9
      [] e[1] = "logger" -> 10
      [] e[1] = "callback" -> 11
      [] e[1] = "algorithm" -> 12
      [] e[1] = "Trainer" -> 13
      [] e[1] = "log_config" -> 14
      [] e[1] = "fit" -> 15
      [] OTHER -> 16

C10_CodeOrder ==
    /\ \A i \in 1 .. (Len(events) - 1) : CodeRank(events[i]) <= CodeRank(events[i + 1])
    /\ \A i \in 1 .. Len(events) :
          CodeRank(events[i]) \in 3 .. 15 =>
              /\ "device_train_batch_size" \in DOMAIN cfg
              /\ Before(i, "seed_all")
              /\ (events[i][1] # "model" => Before(i, "model"))
    /\ pc = "train_loader" => "icl_tasks" \in DOMAIN cfg
    /\ pc = "get_evaluators" => (Count("tokenizer") = 1 /\ Count("dataloader") = 0)

C10_Witness ==
    /\ pc = "done"
    /\ Count("Evaluator") = 1
    /\ Count("algorithm") = 1
    /\ \E i, j \in 1 .. Len(events) :
          i < j /\ events[i][1] = "Evaluator" /\ events[j] = <<"dataloader", "train_loader">>

====
